---- MODULE Spec2Model ----
(***************************************************************************)
(* The order lifecycle engine of the Telegram views bot (src/viewsbot.py): *)
(* the coin ledger (users_data), the stored orders (orders_data), the      *)
(* deferred-dispatch timers (order_timers and their threads), the handler  *)
(* thread of the bot (TeleBot(threaded=False): one handler at a time) and  *)
(* the submission of orders to the external API with its two retry loops.  *)
(*                                                                         *)
(* Python strings that the code splits on "_" are sequences of their       *)
(* "_"-separated parts: the order id "ORD_<suffix>" is <<"ORD", suffix>>.  *)
(* A Python dict whose keys come and go (an entry of users_data) is a      *)
(* record with the set of its present keys in the field keys.              *)
(* Where Python functions are defined twice in the file, the later         *)
(* definition is the one the module binds, and the one modelled here.      *)
(*                                                                         *)
(* The handlers run one at a time on the polling thread; each Timer of a   *)
(* deferred order runs process_delayed_order on a thread of its own, with  *)
(* no lock, so its steps interleave with the handlers wherever it reads or *)
(* writes orders_data. The cancel handlers are taken as registered, as     *)
(* they are when the module is imported.                                   *)
(***************************************************************************)
EXTENDS Integers, Sequences, FiniteSets, TLC

\* ------------------------------------------------------------ bounds
NumUsers == 2
MaxOrders == 2
MaxCoins == 200
MaxSamples == 100
MaxGranted == 400

\* ------------------------------------------------- program constants
API_RETRIES == 3
API_RETRY_DELAY == 5
max_retries == 3
retry_delay == 5
MinQuantity == 100
MaxQuantity == 100000
MinPrice == 10

\* ------------------------------------------------------ input domains
Users == 1..NumUsers
\* generate_order_id: "ORD_" + 8 random characters + 4 digits of the clock; the
\* suffixes are numbered
OrderIds == {<<"ORD", n>> : n \in 1..MaxOrders}
ValidLinks == {"https://t.me/c/1"}
LinkTexts == ValidLinks \cup {"ftp://x"}
QuantityTexts == {"99", "100", "200", "100001", "abc"}
CoinTexts == {"0", "-100", "200", "abc"}
CancelText == "Cancel"
ExternalIds == {7001}
ApiErrors == {"Incorrect request"}

None == "None"
NoInt == -1

\* callback data of the delivery keyboard (process_view_quantity, lines 984-996)
CallbackData ==
    { <<"cancel", "view", "order">>, <<"speed", "maximum">>, <<"speed", "slow">>,
      <<"drip", "1", "3", "100">> }

\* int(text): the texts of the input domains that parse, with their values
IntTexts == {"-100", "0", "1", "2", "3", "5", "99", "100", "150", "200", "100001"}
ParseInt(text) ==
    CASE text = "0" -> 0 [] text = "1" -> 1 [] text = "2" -> 2 [] text = "3" -> 3
      [] text = "5" -> 5 [] text = "99" -> 99 [] text = "100" -> 100
      [] text = "150" -> 150 [] text = "200" -> 200 [] text = "100001" -> 100001
      [] text = "-100" -> 0 - 100

\* responses of the external API to one request (requests.post + response.json)
Responses ==
    [kind : {"order"}, order : ExternalIds]
        \cup [kind : {"error"}, error : ApiErrors]
        \cup {[kind |-> "no_error_field"]}
        \cup [kind : {"timeout"}, msg : {"Read timed out."}]
        \cup [kind : {"connection"}, msg : {"Connection refused"}]
        \cup [kind : {"exception"}, msg : {"Expecting value: line 1 column 1 (char 0)"}]

TransportKinds == {"timeout", "connection"}

\* responses that arrive with an HTTP status other than 200 and a JSON body;
\* the responses above arrive with status 200
NonOkResponses ==
    [kind : {"order"}, order : ExternalIds, status_code : {500}]
        \cup [kind : {"error"}, error : ApiErrors, status_code : {500}]

\* response.status_code
HttpStatus(resp) == IF "status_code" \in DOMAIN resp THEN resp.status_code ELSE 200

VARIABLES
    users_data,     \* user id -> account dict (in memory; saved by update_user)
    ADMIN_IDS,      \* the admin list
    next_step,      \* user/chat id -> the registered next-step handler
    orders_data,    \* the stored orders, in creation order
    order_timers,   \* order id -> the timer armed for it (0: no entry)
    thr,            \* 0: process_order_to_api on the handler thread; k: timer thread of order k
    hpc,            \* position of the handler thread
    hctx,           \* locals of the running handler
    api_requests,   \* per stored order: the dispatch threads whose requests for it reached the API
    refunded,       \* per stored order: how many times its price was credited back
    journal,        \* per stored order: the file writes, the arming and the first request, in order
    quote_closed,   \* per user: a quote is stored whose purchase has ended
    calc,           \* one evaluation of the price and the delivery plan of a quantity
    posted,         \* per stored order: the request data posted to the API for it
    granted,        \* per user: the sum of the coins admins have added
    db              \* database.py: the users table of the remote store, the users file, the last update and the last read

vars == <<users_data, ADMIN_IDS, next_step, orders_data, order_timers, thr, hpc, hctx,
          api_requests, refunded, journal, quote_closed, calc, posted, granted, db>>

\* ------------------------------------------------------------ helpers
TempKeys == {"temp_post_link", "temp_quantity", "temp_price"}

NoAccount ==
    [exists |-> FALSE, keys |-> {}, coins |-> 0, temp_post_link |-> "",
     temp_quantity |-> 0, temp_price |-> 0, admin_temp_user_id |-> 0]

\* users_data[user_id] = {}
EmptyAccount == [NoAccount EXCEPT !.exists = TRUE]

\* get_user: create the record with coins 0 when the id is unknown
NewAccount == [EmptyAccount EXCEPT !.keys = {"coins"}, !.coins = 0]

get_user(ud, u) == IF ud[u].exists THEN ud[u] ELSE NewAccount

\* for key in list(users_data[user_id].keys()): if key.startswith('temp_'): del ...
ClearTemp(a) ==
    [a EXCEPT !.keys = a.keys \ TempKeys, !.temp_post_link = "",
              !.temp_quantity = 0, !.temp_price = 0]

calculate_view_price_Flat(quantity) == MinPrice

\* price = quantity; return max(10, price)
calculate_view_price(quantity) == IF quantity > MinPrice THEN quantity ELSE MinPrice

\* next((o for o in orders_data if o["id"] == order_id), None): index of the first match, 0 for None
FindOrder(od, order_id) ==
    IF \E i \in 1..Len(od) : od[i].id = order_id
    THEN CHOOSE i \in 1..Len(od) :
            od[i].id = order_id /\ \A j \in 1..(i - 1) : od[j].id # order_id
    ELSE 0

IdleThread ==
    [pc |-> "none", order_id |-> <<>>, idx |-> 0, attempt |-> 0,
     requests |-> 0, slept |-> 0, all_transport |-> TRUE, last_error |-> None]

\* a dispatch function that has returned: its locals are gone
DoneThread == [IdleThread EXCEPT !.pc = "done"]

NoCtx == [user |-> 0, order_id |-> <<>>, idx |-> 0]

\* "Invalid option": no plan; api_runs = None, api_interval = None, start_delay = 0
NoPlan ==
    [valid |-> FALSE, delivery |-> <<>>, batch_size |-> NoInt,
     api_runs |-> NoInt, api_interval |-> NoInt, start_delay |-> 0]

\* no evaluation of the price and the plan is under way
NoCalc == [pc |-> "none", quantity |-> 0, data |-> <<>>, price |-> 0, plan |-> NoPlan]

\* database.py before any call: no row in the users table of the remote
\* store, no entry in the users file, no update and no read yet
NoUpdate == [coins |-> NoInt, by |-> "none", matched |-> FALSE]

EmptyStore ==
    [supabase |-> [u \in Users |-> NoInt],
     users_file |-> [u \in Users |-> NoInt],
     last_update |-> [u \in Users |-> NoUpdate],
     last_read |-> [user |-> 0, coins |-> NoInt, by |-> "none", after |-> NoUpdate]]

Init ==
    /\ users_data = [u \in Users |-> NoAccount]
    /\ ADMIN_IDS = {}
    /\ next_step = [u \in Users |-> "none"]
    /\ orders_data = <<>>
    /\ order_timers = [i \in OrderIds |-> 0]
    /\ thr = [t \in 0..MaxOrders |-> IdleThread]
    /\ hpc = "idle"
    /\ hctx = NoCtx
    /\ api_requests = [k \in 1..MaxOrders |-> {}]
    /\ refunded = [k \in 1..MaxOrders |-> 0]
    /\ journal = [k \in 1..MaxOrders |-> <<>>]
    /\ quote_closed = [u \in Users |-> FALSE]
    /\ calc = NoCalc
    /\ posted = [k \in 1..MaxOrders |-> {}]
    /\ granted = [u \in Users |-> 0]
    /\ db = EmptyStore

\* ------------------------------------------------- message handlers
\* A text message reaches a message handler only when no next-step handler is
\* registered for the chat; otherwise the registered handler consumes it.
HandlerFree(u) == hpc = "idle" /\ next_step[u] = "none"

\* /start: get or create the account; the first user becomes admin
start_command(u) ==
    /\ HandlerFree(u)
    /\ users_data' = [users_data EXCEPT ![u] = get_user(users_data, u)]
    /\ ADMIN_IDS' = IF ADMIN_IDS = {} THEN {u} ELSE ADMIN_IDS
    /\ UNCHANGED <<next_step, orders_data, order_timers, thr, hpc, hctx, api_requests, refunded, journal, quote_closed, calc, posted, granted, db>>

\* "View": clear the pending input state and ask for the post link
view_service(u) ==
    /\ HandlerFree(u)
    /\ users_data' = [users_data EXCEPT
                        ![u] = IF @.exists THEN ClearTemp(@) ELSE @]
    /\ next_step' = [next_step EXCEPT ![u] = "process_post_link"]
    /\ quote_closed' = [quote_closed EXCEPT ![u] = FALSE]
    /\ UNCHANGED <<ADMIN_IDS, orders_data, order_timers, thr, hpc, hctx, api_requests, refunded, journal, calc, posted, granted, db>>

process_post_link(u, text) ==
    /\ hpc = "idle"
    /\ next_step[u] = "process_post_link"
    /\ IF text = CancelText
       THEN /\ next_step' = [next_step EXCEPT ![u] = "none"]
            /\ UNCHANGED users_data
       ELSE IF text \notin ValidLinks
       THEN UNCHANGED <<next_step, users_data>>
       ELSE /\ users_data' =
                [users_data EXCEPT
                    ![u] = [(IF @.exists THEN @ ELSE EmptyAccount) EXCEPT
                               !.keys = @ \cup {"temp_post_link"},
                               !.temp_post_link = text]]
            /\ next_step' = [next_step EXCEPT ![u] = "process_view_quantity"]
    /\ UNCHANGED <<ADMIN_IDS, orders_data, order_timers, thr, hpc, hctx, api_requests, refunded, journal, quote_closed, calc, posted, granted, db>>

QuantityInRange_Any(quantity) == TRUE

\* quantity < 100 or > 100000 is rejected before anything is stored
QuantityInRange(quantity) == quantity >= MinQuantity /\ quantity <= MaxQuantity

process_view_quantity(u, text) ==
    /\ hpc = "idle"
    /\ next_step[u] = "process_view_quantity"
    /\ IF text = CancelText
       THEN /\ next_step' = [next_step EXCEPT ![u] = "none"]
            /\ UNCHANGED <<users_data, quote_closed>>
       ELSE IF text \notin IntTexts \/ ~QuantityInRange(ParseInt(text))
       THEN UNCHANGED <<next_step, users_data, quote_closed>>
       ELSE /\ quote_closed' = [quote_closed EXCEPT ![u] = FALSE]
            /\ users_data' =
                [users_data EXCEPT
                    ![u] = [(IF @.exists THEN @ ELSE EmptyAccount) EXCEPT
                               !.keys = @ \cup {"temp_quantity", "temp_price"},
                               !.temp_quantity = ParseInt(text),
                               !.temp_price = calculate_view_price(ParseInt(text))]]
            /\ next_step' = [next_step EXCEPT ![u] = "none"]
    /\ UNCHANGED <<ADMIN_IDS, orders_data, order_timers, thr, hpc, hctx, api_requests, refunded, journal, calc, posted, granted, db>>

\* ------------------------------------------------------- admin grant
\* callback "admin_add_coins" of the admin panel
admin_callback_handler(u) ==
    /\ hpc = "idle"
    /\ IF u \notin ADMIN_IDS
       THEN UNCHANGED next_step
       ELSE next_step' = [next_step EXCEPT ![u] = "admin_get_user_id_for_coins"]
    /\ UNCHANGED <<users_data, ADMIN_IDS, orders_data, order_timers, thr, hpc, hctx,
                   api_requests, refunded, journal, quote_closed, calc, posted, granted, db>>

\* the admin names the user to credit; ids are entered as text
UserIdTexts == {"1", "2", "abc"}

admin_get_user_id_for_coins(u, text) ==
    /\ hpc = "idle"
    /\ next_step[u] = "admin_get_user_id_for_coins"
    /\ IF text = CancelText
       THEN /\ next_step' = [next_step EXCEPT ![u] = "none"]
            /\ UNCHANGED users_data
       ELSE IF text \notin IntTexts
       THEN UNCHANGED <<next_step, users_data>>
       ELSE IF ParseInt(text) \notin Users \/ ~users_data[ParseInt(text)].exists
       THEN /\ next_step' = [next_step EXCEPT ![u] = "none"]
            /\ UNCHANGED users_data
       ELSE /\ users_data' =
                [users_data EXCEPT
                    ![u] = [(IF @.exists THEN @ ELSE EmptyAccount) EXCEPT
                               !.keys = @ \cup {"admin_temp_user_id"},
                               !.admin_temp_user_id = ParseInt(text)]]
            /\ next_step' = [next_step EXCEPT ![u] = "admin_add_coins_to_user"]
    /\ UNCHANGED <<ADMIN_IDS, orders_data, order_timers, thr, hpc, hctx, api_requests, refunded, journal, quote_closed, calc, posted, granted, db>>

PositiveAmount_Any(coins) == TRUE

\* if coins <= 0: ask again
PositiveAmount(coins) == coins > 0

Credit_Overwrite(balance, amount) == amount

\* user['coins'] += coins
Credit(balance, amount) == balance + amount

admin_add_coins_to_user(u, text) ==
    /\ hpc = "idle"
    /\ next_step[u] = "admin_add_coins_to_user"
    /\ IF text = CancelText
          \/ ~(users_data[u].exists /\ "admin_temp_user_id" \in users_data[u].keys)
       THEN /\ next_step' = [next_step EXCEPT ![u] = "none"]
            /\ UNCHANGED <<users_data, granted>>
       ELSE IF text \notin IntTexts \/ ~PositiveAmount(ParseInt(text))
       THEN UNCHANGED <<next_step, users_data, granted>>
       ELSE LET target == users_data[u].admin_temp_user_id
                user == get_user(users_data, target)
            IN  /\ next_step' = [next_step EXCEPT ![u] = "none"]
                /\ IF "coins" \notin user.keys
                   THEN \* KeyError: the account has no coins field
                        /\ users_data' = [users_data EXCEPT ![target] = user]
                        /\ UNCHANGED granted
                   ELSE /\ Credit(user.coins, ParseInt(text)) <= MaxCoins
                        /\ users_data' =
                             [users_data EXCEPT
                                ![target] = [user EXCEPT
                                    !.coins = Credit(user.coins, ParseInt(text))]]
                        /\ granted' = [granted EXCEPT ![target] = @ + ParseInt(text)]
    /\ UNCHANGED <<ADMIN_IDS, orders_data, order_timers, thr, hpc, hctx, api_requests,
                   refunded, journal, quote_closed, calc, posted, db>>

\* the buttons under the "user not found" message of the grant flow
UserManagementData ==
    {<<"admin", "create", "user", id>> : id \in {"1", "2"}}
        \cup {<<"admin", "retry", "user", "id">>, <<"admin", "back", "to", "panel">>}

\* admin_user_management_callback: "Create New User" stores a fresh record
\* under the id of the button (users_data[user_id] = {...}, whatever was
\* there), keeps the id in the admin's session and asks for the amount;
\* "Try Different ID" asks for a user id again
admin_user_management_callback(u, data, save_result) ==
    /\ hpc = "idle"
    /\ IF u \notin ADMIN_IDS
       THEN UNCHANGED <<users_data, next_step>>
       ELSE IF data[2] = "create"
       THEN LET target == ParseInt(data[4])
                created == [users_data EXCEPT ![target] = NewAccount]
            IN  IF save_result
                THEN /\ users_data' =
                          [created EXCEPT
                              ![u] = [(IF @.exists THEN @ ELSE EmptyAccount) EXCEPT
                                         !.keys = @ \cup {"admin_temp_user_id"},
                                         !.admin_temp_user_id = target]]
                     /\ next_step' = [next_step EXCEPT ![u] = "admin_add_coins_to_user"]
                ELSE /\ users_data' = created
                     /\ UNCHANGED next_step
       ELSE IF data[2] = "retry"
       THEN /\ next_step' = [next_step EXCEPT ![u] = "admin_get_user_id_for_coins"]
            /\ UNCHANGED users_data
       ELSE UNCHANGED <<users_data, next_step>>
    /\ UNCHANGED <<ADMIN_IDS, orders_data, order_timers, thr, hpc, hctx, api_requests,
                   refunded, journal, quote_closed, calc, posted, granted, db>>

\* ------------------------------------------------- order creation
Max(a, b) == IF a > b THEN a ELSE b
Min(a, b) == IF a < b THEN a ELSE b

slow_batch_size_Uncapped(quantity) == Max(100, quantity \div 10)

\* speed_slow: batch_size = max(100, min(quantity // 10, 1000))
slow_batch_size(quantity) == Max(100, Min(quantity \div 10, 1000))

runs_Unfloored(quantity, batch_size) == quantity \div batch_size

\* runs = max(1, quantity // batch_size), for speed_slow and for drip_
runs(quantity, batch_size) == Max(1, quantity \div batch_size)

\* the delivery plan of handle_speed_selection for a callback and a quantity;
\* batch_size is the local variable of that name (None for speed_maximum)
DeliveryPlan(data, quantity) ==
    IF data = <<"speed", "maximum">>
    THEN [valid |-> TRUE, delivery |-> <<"maximum">>, batch_size |-> NoInt,
          api_runs |-> NoInt, api_interval |-> NoInt, start_delay |-> 0]
    ELSE IF data = <<"speed", "slow">>
    THEN [valid |-> TRUE, delivery |-> <<"slow">>,
          batch_size |-> slow_batch_size(quantity),
          api_runs |-> runs(quantity, slow_batch_size(quantity)),
          api_interval |-> 30, start_delay |-> 0]
    ELSE IF data[1] = "drip" /\ Len(data) >= 4
    THEN [valid |-> TRUE, delivery |-> data, batch_size |-> ParseInt(data[4]),
          api_runs |-> runs(quantity, ParseInt(data[4])),
          api_interval |-> ParseInt(data[3]), start_delay |-> ParseInt(data[2])]
    ELSE NoPlan

\* ------------------------------------------ price and plan, evaluated
\* The price and the delivery plan are functions of the quantity and the
\* button alone. SpecPlan evaluates them for quantities across and around the
\* accepted range and for every button of the delivery keyboard.
PlanQuantities ==
    {1, 10, 99, 149, 150, 350, 999, 1000, 9999, 10000, 10001, 99999, 100001}
        \cup {MinQuantity + 999 * i : i \in 0..MaxSamples}

\* the callback_data of the buttons process_view_quantity attaches to the quote
KeyboardButtons ==
    CallbackData \cup { <<"drip", "1", "3", "150">>, <<"drip", "1", "5", "100">>,
                        <<"drip", "1", "1", "100">> }

InitPlan ==
    /\ users_data = [u \in Users |-> NoAccount]
    /\ ADMIN_IDS = {}
    /\ next_step = [u \in Users |-> "none"]
    /\ orders_data = <<>>
    /\ order_timers = [i \in OrderIds |-> 0]
    /\ thr = [t \in 0..MaxOrders |-> IdleThread]
    /\ hpc = "idle"
    /\ hctx = NoCtx
    /\ api_requests = [k \in 1..MaxOrders |-> {}]
    /\ refunded = [k \in 1..MaxOrders |-> 0]
    /\ journal = [k \in 1..MaxOrders |-> <<>>]
    /\ quote_closed = [u \in Users |-> FALSE]
    /\ posted = [k \in 1..MaxOrders |-> {}]
    /\ granted = [u \in Users |-> 0]
    /\ db = EmptyStore
    /\ calc \in {[NoCalc EXCEPT !.pc = "input", !.quantity = q, !.data = d] :
                     q \in PlanQuantities, d \in KeyboardButtons}

\* price = calculate_view_price(quantity), as in process_view_quantity
quote_price ==
    /\ calc.pc = "input"
    /\ calc' = [calc EXCEPT !.pc = "priced",
                            !.price = calculate_view_price(calc.quantity)]
    /\ UNCHANGED <<users_data, ADMIN_IDS, next_step, orders_data, order_timers, thr, hpc,
                   hctx, api_requests, refunded, journal, quote_closed, posted, granted, db>>

\* the branch on call.data of handle_speed_selection
select_plan ==
    /\ calc.pc = "priced"
    /\ calc' = [calc EXCEPT !.pc = "planned",
                            !.plan = DeliveryPlan(calc.data, calc.quantity)]
    /\ UNCHANGED <<users_data, ADMIN_IDS, next_step, orders_data, order_timers, thr, hpc,
                   hctx, api_requests, refunded, journal, quote_closed, posted, granted, db>>

NextPlan == quote_price \/ select_plan

SpecPlan == InitPlan /\ [][NextPlan]_vars

HasEnoughCoins_Unchecked(coins, price) == TRUE

HasEnoughCoins_AgainstZero(coins, price) == ~(coins < 0)

\* if user['coins'] < price: "Insufficient coins"
HasEnoughCoins(coins, price) == ~(coins < price)

Debit_Twice(coins, price) == coins - price - price

\* user['coins'] -= price
Debit(coins, price) == coins - price

\* The ids generate_order_id can return for the next order: random characters
\* and the clock, no look at the stored orders. The numbered suffix of the
\* next order stands for a draw that has not come up before.
generate_order_id == {<<"ORD", Len(orders_data) + 1>>}

\* the order record built by handle_speed_selection
NewOrder(order_id, u, account, plan) ==
    [id |-> order_id, user_id |-> u, post_link |-> account.temp_post_link,
     quantity |-> account.temp_quantity, price |-> account.temp_price,
     delivery |-> plan.delivery, api_runs |-> plan.api_runs,
     api_interval |-> plan.api_interval, start_delay |-> plan.start_delay,
     status |-> "pending", api_order_id |-> NoInt, api_response |-> NoInt,
     last_attempt |-> FALSE, processing_started |-> FALSE, error |-> None]

HasQuote(u) ==
    /\ users_data[u].exists
    /\ TempKeys \subseteq users_data[u].keys

\* threading.Timer(start_delay * 60, process_delayed_order, args=[order_id])
ArmedThread(order_id) == [IdleThread EXCEPT !.pc = "armed", !.order_id = order_id]

\* a call of process_order_to_api / process_delayed_order that has just begun
StartedThread(order_id) == [IdleThread EXCEPT !.pc = "find", !.order_id = order_id]

\* an entry of the journal: a file write and whether save_data returned True,
\* the arming of the timer, or the first request to the API
Event(op, ok) == [op |-> op, ok |-> ok]

CreationWrites_Skipped(users_saved, orders_saved) == <<>>

\* update_user(call.from_user.id, user) saves the users file, then
\* save_data(ORDERS_FILE, orders_data) saves the orders file
CreationWrites(users_saved, orders_saved) ==
    <<Event("save_users", users_saved), Event("save_orders", orders_saved)>>

\* The confirm handler, from the callback to the point where the order is
\* either scheduled or handed to process_order_to_api. order_id is the value
\* generate_order_id returns; notify_ok is FALSE when answer_callback_query or
\* edit_message_text raises after the order was stored; users_saved and
\* orders_saved are what save_data returns for the two files (the handler does
\* not look at them).
handle_speed_selection(u, data, order_id, notify_ok, users_saved, orders_saved) ==
    /\ hpc = "idle"
    /\ IF ~HasQuote(u)
       THEN UNCHANGED <<users_data, orders_data, order_timers, thr, hpc, hctx, journal,
                        quote_closed>>
       ELSE IF data = <<"cancel", "view", "order">>
       THEN /\ quote_closed' = [quote_closed EXCEPT ![u] = TRUE]
            /\ UNCHANGED <<users_data, orders_data, order_timers, thr, hpc, hctx, journal>>
       ELSE LET user == users_data[u]
                plan == DeliveryPlan(data, user.temp_quantity)
                price == user.temp_price
                k == Len(orders_data) + 1
            IN  IF ~plan.valid \/ "coins" \notin user.keys
                   \/ ~HasEnoughCoins(user.coins, price)
                THEN UNCHANGED <<users_data, orders_data, order_timers, thr, hpc, hctx,
                                 journal, quote_closed>>
                ELSE /\ k <= MaxOrders
                     /\ quote_closed' =
                          [quote_closed EXCEPT
                             ![u] = ~(notify_ok /\ plan.start_delay > 0)]
                     /\ orders_data' = Append(orders_data, NewOrder(order_id, u, user, plan))
                     /\ journal' =
                          [journal EXCEPT
                             ![k] = IF notify_ok /\ plan.start_delay > 0
                                    THEN Append(CreationWrites(users_saved, orders_saved),
                                                Event("arm", TRUE))
                                    ELSE CreationWrites(users_saved, orders_saved)]
                     /\ IF ~notify_ok
                        THEN /\ users_data' =
                                  [users_data EXCEPT ![u].coins = Debit(@, price)]
                             /\ UNCHANGED <<order_timers, thr, hpc, hctx>>
                        ELSE IF plan.start_delay > 0
                        THEN /\ users_data' =
                                  [users_data EXCEPT
                                     ![u] = ClearTemp([@ EXCEPT !.coins = Debit(@, price)])]
                             /\ order_timers' = [order_timers EXCEPT ![order_id] = k]
                             /\ thr' = [thr EXCEPT ![k] = ArmedThread(order_id)]
                             /\ UNCHANGED <<hpc, hctx>>
                        ELSE /\ users_data' =
                                  [users_data EXCEPT ![u].coins = Debit(@, price)]
                             /\ thr' = [thr EXCEPT ![0] = StartedThread(order_id)]
                             /\ hpc' = "process_order_to_api"
                             /\ hctx' = [NoCtx EXCEPT !.user = u, !.order_id = order_id]
                             /\ UNCHANGED order_timers
    /\ UNCHANGED <<ADMIN_IDS, next_step, api_requests, refunded, calc, posted, granted, db>>

\* the rest of handle_speed_selection after process_order_to_api returned:
\* the temp_ keys of the user are deleted
handle_speed_selection_return ==
    /\ hpc = "process_order_to_api"
    /\ thr[0].pc = "done"
    /\ users_data' = [users_data EXCEPT ![hctx.user] = ClearTemp(@)]
    /\ quote_closed' = [quote_closed EXCEPT ![hctx.user] = FALSE]
    /\ thr' = [thr EXCEPT ![0] = IdleThread]
    /\ hpc' = "idle"
    /\ hctx' = NoCtx
    /\ UNCHANGED <<ADMIN_IDS, next_step, orders_data, order_timers, api_requests, refunded,
                   journal, calc, posted, granted, db>>

\* ------------------------------------------------------- dispatch
StillPending_Any(status) == TRUE

\* if order["status"] != "pending": skip the API request
StillPending(status) == status = "pending"

\* the lookup and the pending check that open both dispatch functions
DispatchFind(t) ==
    LET idx == FindOrder(orders_data, thr[t].order_id)
    IN  /\ thr[t].pc = "find"
        /\ thr' = [thr EXCEPT
                     ![t] = IF idx # 0 /\ StillPending(orders_data[idx].status)
                            THEN [@ EXCEPT !.pc = "mark", !.idx = idx]
                            ELSE DoneThread]

\* what send_view_order_to_api returns when a failed attempt is its last one
ErrorResult(resp) ==
    CASE resp.kind = "error" -> resp.error
      [] resp.kind = "no_error_field" -> "Unknown API error"
      [] resp.kind = "timeout" -> "API request timed out after multiple attempts"
      [] resp.kind = "connection" -> "Connection error after multiple attempts"
      [] resp.kind = "exception" -> resp.msg

\* the error a failed request showed: the exception's message or the payload's error
Observed(resp) ==
    CASE resp.kind = "error" -> resp.error
      [] resp.kind = "no_error_field" -> "Unknown API error"
      [] resp.kind \in {"timeout", "connection", "exception"} -> resp.msg

\* if 'order' in response_data
IsSuccess(resp) == resp.kind = "order"

\* attempt < API_RETRIES - 1 in send_view_order_to_api
InnerRetry(inner) == inner < API_RETRIES - 1

\* attempt < max_retries - 1 in process_order_to_api / process_delayed_order
OuterRetry(attempt) == attempt < max_retries - 1

RecordSuccess_StatusOnly(order, result) ==
    [order EXCEPT !.status = "processing", !.last_attempt = TRUE]

RecordSuccess(order, result) ==
    [order EXCEPT !.api_order_id = result, !.status = "processing",
                  !.api_response = result, !.last_attempt = TRUE]

RecordFailure_StatusOnly(order, result) ==
    [order EXCEPT !.status = "failed", !.last_attempt = TRUE]

RecordFailure_ErrorOnly(order, result) ==
    [order EXCEPT !.error = result, !.last_attempt = TRUE]

RecordFailure_SetsId(order, result) ==
    [order EXCEPT !.status = "failed", !.error = result, !.last_attempt = TRUE,
                  !.api_order_id = 0]

\* status = "failed", error = result, after the last attempt
RecordFailure(order, result) ==
    [order EXCEPT !.status = "failed", !.error = result, !.last_attempt = TRUE]

\* The responses a call of send_view_order_to_api can meet: one per request,
\* a success only as the last one, API_RETRIES of them when none succeeds.
ResponseRuns(R) ==
    UNION { {rs \in [1..n -> R] :
                /\ \A i \in 1..(n - 1) : ~IsSuccess(rs[i])
                /\ IsSuccess(rs[n]) \/ n = API_RETRIES} : n \in 1..API_RETRIES }

\* The loop of send_view_order_to_api over the responses rs to its requests:
\* what it returns, the requests it made and the seconds it slept.
RECURSIVE SendLoop(_, _, _)
SendLoop(rs, attempt, slept) ==
    LET resp == rs[attempt + 1]
    IN  IF IsSuccess(resp)
        THEN [success |-> TRUE, result |-> resp.order, error |-> None,
              requests |-> attempt + 1, slept |-> slept]
        ELSE IF InnerRetry(attempt)
        THEN SendLoop(rs, attempt + 1, slept + API_RETRY_DELAY)
        ELSE [success |-> FALSE, result |-> NoInt, error |-> ErrorResult(resp),
              requests |-> attempt + 1, slept |-> slept]

send_view_order_to_api(rs) == SendLoop(rs, 0, 0)

\* the truth value Python gives order.get(key): None and 0 are false
Truthy(x) == x # NoInt /\ x # 0

api_data_Plain(order) ==
    [fields |-> {"key", "action", "service", "link", "quantity"},
     link |-> order.post_link, quantity |-> order.quantity,
     runs |-> NoInt, interval |-> NoInt]

\* api_data of send_view_order_to_api: key, action, service, link and quantity,
\* and runs and interval if order.get('api_runs') and order.get('api_interval')
api_data(order) ==
    LET drip_feed == Truthy(order.api_runs) /\ Truthy(order.api_interval)
    IN  [fields |-> {"key", "action", "service", "link", "quantity"}
                        \cup (IF drip_feed THEN {"runs", "interval"} ELSE {}),
         link |-> order.post_link, quantity |-> order.quantity,
         runs |-> IF drip_feed THEN order.api_runs ELSE NoInt,
         interval |-> IF drip_feed THEN order.api_interval ELSE NoInt]

\* requests.post(API_URL, ...): the first request for an order is entered
Requested(events) ==
    IF \E i \in 1..Len(events) : events[i].op = "request"
    THEN events
    ELSE Append(events, Event("request", TRUE))

AccountsAfterFailure_Refunded(accounts, order) ==
    [accounts EXCEPT ![order.user_id].coins = @ + order.price]

\* the failure branches of both dispatch functions write the order and send
\* a message; they do not read or write users_data
AccountsAfterFailure(accounts, order) == accounts

\* One turn of the retry loop of process_order_to_api / process_delayed_order:
\* the call of send_view_order_to_api, then record the success, sleep and go
\* round again, or record the failure. A dispatch that ends in failure keeps
\* its counters in thr for inspection; one that succeeds leaves none.
DispatchAttempt(t, rs) ==
    LET th == thr[t]
        res == send_view_order_to_api(rs)
        called == [th EXCEPT !.requests = @ + res.requests,
                             !.slept = @ + res.slept,
                             !.all_transport =
                                 @ /\ \A i \in 1..Len(rs) : rs[i].kind \in TransportKinds]
    IN  /\ th.pc = "request"
        /\ api_requests' = [api_requests EXCEPT ![th.idx] = @ \cup {t}]
        /\ journal' = [journal EXCEPT ![th.idx] = Requested(@)]
        /\ posted' = [posted EXCEPT ![th.idx] = @ \cup {api_data(orders_data[th.idx])}]
        /\ IF res.success
           THEN /\ orders_data' = [orders_data EXCEPT
                                     ![th.idx] = RecordSuccess(@, res.result)]
                /\ thr' = [thr EXCEPT ![t] = DoneThread]
                /\ UNCHANGED users_data
           ELSE IF OuterRetry(th.attempt)
           THEN /\ thr' = [thr EXCEPT ![t] = [called EXCEPT !.attempt = @ + 1,
                                                 !.slept = @ + retry_delay]]
                /\ UNCHANGED <<orders_data, users_data>>
           ELSE /\ orders_data' = [orders_data EXCEPT
                                     ![th.idx] = RecordFailure(@, res.error)]
                /\ users_data' = AccountsAfterFailure(users_data, orders_data[th.idx])
                /\ thr' = [thr EXCEPT ![t] = [called EXCEPT !.pc = "done",
                                                 !.last_error = Observed(rs[Len(rs)])]]

\* process_order_to_api runs on the handler thread (thread 0)
process_order_to_api_find ==
    /\ hpc = "process_order_to_api"
    /\ DispatchFind(0)
    /\ UNCHANGED <<users_data, ADMIN_IDS, next_step, orders_data, order_timers, hpc,
                   hctx, api_requests, refunded, journal, quote_closed, calc, posted, granted, db>>

process_order_to_api_mark ==
    /\ hpc = "process_order_to_api"
    /\ thr[0].pc = "mark"
    /\ orders_data' = [orders_data EXCEPT
                         ![thr[0].idx] = [@ EXCEPT !.status = "processing",
                                             !.processing_started = TRUE,
                                             !.last_attempt = TRUE]]
    /\ thr' = [thr EXCEPT ![0].pc = "request"]
    /\ UNCHANGED <<users_data, ADMIN_IDS, next_step, order_timers, hpc, hctx,
                   api_requests, refunded, journal, quote_closed, calc, posted, granted, db>>

process_order_to_api_attempt(rs) ==
    /\ hpc = "process_order_to_api"
    /\ DispatchAttempt(0, rs)
    /\ UNCHANGED <<ADMIN_IDS, next_step, order_timers, hpc, hctx, refunded,
                   quote_closed, calc, granted, db>>

\* the timer of order k expires and its thread starts process_delayed_order
timer_fire(k) ==
    /\ thr[k].pc = "armed"
    /\ thr' = [thr EXCEPT ![k].pc = "find"]
    /\ UNCHANGED <<users_data, ADMIN_IDS, next_step, orders_data, order_timers, hpc,
                   hctx, api_requests, refunded, journal, quote_closed, calc, posted, granted, db>>

process_delayed_order_find(k) ==
    /\ DispatchFind(k)
    /\ UNCHANGED <<users_data, ADMIN_IDS, next_step, orders_data, order_timers, hpc,
                   hctx, api_requests, refunded, journal, quote_closed, calc, posted, granted, db>>

process_delayed_order_mark(k) ==
    /\ thr[k].pc = "mark"
    /\ orders_data' = [orders_data EXCEPT
                         ![thr[k].idx] = [@ EXCEPT !.status = "processing",
                                             !.processing_started = TRUE]]
    /\ thr' = [thr EXCEPT ![k].pc = "request"]
    /\ UNCHANGED <<users_data, ADMIN_IDS, next_step, order_timers, hpc, hctx,
                   api_requests, refunded, journal, quote_closed, calc, posted, granted, db>>

process_delayed_order_attempt(k, rs) ==
    /\ DispatchAttempt(k, rs)
    /\ UNCHANGED <<ADMIN_IDS, next_step, order_timers, hpc, hctx, refunded,
                   quote_closed, calc, granted, db>>

\* ------------------------------------------------------ cancellation
Cancellable_Processing(status) == status \in {"pending", "processing"}

\* if order["status"] != "pending": only pending orders can be cancelled
Cancellable(status) == status = "pending"

\* if str(call.from_user.id) != order["user_id"]: rejected
OwnsOrder_Anyone(u, order) == TRUE

\* str(call.from_user.id) != order["user_id"]: the sender must own the order
OwnsOrder(u, order) == u = order.user_id

Refund_Nothing(account, price) == [account EXCEPT !.keys = @ \cup {"coins"}]

\* user["coins"] = user.get("coins", 0) + order.get("price", 0)
Refund(account, price) ==
    [account EXCEPT !.keys = @ \cup {"coins"},
                    !.coins = (IF "coins" \in account.keys THEN @ ELSE 0) + price]

CancelTimer_Forgotten(th) == th

\* timer.cancel(): a timer that has not fired yet never fires
CancelTimer(th) == IF th.pc = "armed" THEN [th EXCEPT !.pc = "cancelled"] ELSE th

\* callback cancel_order_<id>: the lookup and the three checks
cancel_order_callback(u, order_id) ==
    LET idx == FindOrder(orders_data, order_id)
    IN  /\ hpc = "idle"
        /\ IF idx # 0 /\ OwnsOrder(u, orders_data[idx])
              /\ Cancellable(orders_data[idx].status)
           THEN /\ hpc' = "cancel_order_callback"
                /\ hctx' = [user |-> u, order_id |-> order_id, idx |-> idx]
           ELSE UNCHANGED <<hpc, hctx>>
        /\ UNCHANGED <<users_data, ADMIN_IDS, next_step, orders_data, order_timers, thr,
                       api_requests, refunded, journal, quote_closed, calc, posted, granted, db>>

\* the rest of cancel_order_callback: mark cancelled, refund, disarm the timer
cancel_order_callback_commit ==
    LET k == order_timers[hctx.order_id]
    IN  /\ hpc = "cancel_order_callback"
        /\ orders_data' = [orders_data EXCEPT ![hctx.idx].status = "cancelled"]
        /\ users_data' =
             [users_data EXCEPT
                ![hctx.user] = Refund(get_user(users_data, hctx.user),
                                      orders_data[hctx.idx].price)]
        /\ IF k # 0
           THEN /\ thr' = [thr EXCEPT ![k] = CancelTimer(@)]
                /\ order_timers' = [order_timers EXCEPT ![hctx.order_id] = 0]
           ELSE UNCHANGED <<thr, order_timers>>
        /\ refunded' = [refunded EXCEPT ![hctx.idx] = @ + 1]
        /\ hpc' = "idle"
        /\ hctx' = NoCtx
        /\ UNCHANGED <<ADMIN_IDS, next_step, api_requests, journal, quote_closed, calc, posted, granted, db>>

\* the text of the command that names the order with this id
CancelCommand(id) == <<"/cancel">> \o id

\* message "/cancel_<order id>": order_id = message.text.split('_')[1]
CommandOrderId(parts) == <<parts[2]>>

cancel_order(u, id) ==
    LET order_id == CommandOrderId(CancelCommand(id))
        idx == FindOrder(orders_data, order_id)
        k == order_timers[order_id]
    IN  /\ HandlerFree(u)
        /\ IF idx # 0 /\ OwnsOrder(u, orders_data[idx])
              /\ Cancellable(orders_data[idx].status)
           THEN /\ orders_data' = [orders_data EXCEPT ![idx].status = "cancelled"]
                /\ users_data' =
                     [users_data EXCEPT
                        ![u] = [get_user(users_data, u) EXCEPT
                                  !.coins = @ + orders_data[idx].price]]
                /\ refunded' = [refunded EXCEPT ![idx] = @ + 1]
                /\ IF k # 0
                   THEN /\ thr' = [thr EXCEPT ![k] = CancelTimer(@)]
                        /\ order_timers' = [order_timers EXCEPT ![order_id] = 0]
                   ELSE UNCHANGED <<thr, order_timers>>
           ELSE UNCHANGED <<orders_data, users_data, thr, order_timers, refunded>>
        /\ UNCHANGED <<ADMIN_IDS, next_step, hpc, hctx, api_requests, journal, quote_closed, calc, posted, granted, db>>

\* ------------------------------------------------------------ system
\* The bot in an environment: A the users who open the admin panel, C the
\* users who order views, Q the quantity texts they enter, D the delivery
\* buttons they press, RS the response runs of the external API, S the results
\* save_data can return, G the ids generate_order_id can return.
Engine(A, C, Q, D, RS, S, G) ==
    \/ \E u \in A \cup C : start_command(u)
    \/ \E u \in C : view_service(u)
    \/ \E u \in C, text \in LinkTexts \cup {CancelText} : process_post_link(u, text)
    \/ \E u \in C, text \in Q \cup {CancelText} : process_view_quantity(u, text)
    \/ \E u \in A : admin_callback_handler(u)
    \/ \E u \in A, text \in UserIdTexts \cup {CancelText} :
            admin_get_user_id_for_coins(u, text)
    \/ \E u \in A, text \in CoinTexts \cup {CancelText} : admin_add_coins_to_user(u, text)
    \/ \E u \in C, data \in D, order_id \in G, notify_ok \in BOOLEAN :
            \E users_saved \in S, orders_saved \in S :
                handle_speed_selection(u, data, order_id, notify_ok,
                                       users_saved, orders_saved)
    \/ handle_speed_selection_return
    \/ process_order_to_api_find
    \/ process_order_to_api_mark
    \/ \E rs \in RS : process_order_to_api_attempt(rs)
    \/ \E k \in 1..MaxOrders : timer_fire(k)
    \/ \E k \in 1..MaxOrders : process_delayed_order_find(k)
    \/ \E k \in 1..MaxOrders : process_delayed_order_mark(k)
    \/ \E k \in 1..MaxOrders, rs \in RS : process_delayed_order_attempt(k, rs)
    \/ \E u \in A \cup C, order_id \in OrderIds : cancel_order_callback(u, order_id)
    \/ cancel_order_callback_commit
    \/ \E u \in A \cup C, id \in OrderIds : cancel_order(u, id)

\* The shop: an admin who grants coins, customers who order; the API accepts
\* an order or reports an error.
Admins == {1}
Customers == Users \ Admins
ShopQuantities == QuantityTexts \ {"200"}
ShopButtons == CallbackData \ {<<"speed", "slow">>}
ShopRuns == ResponseRuns({r \in Responses : r.kind \in {"order", "error"}})

DiskWorks == {TRUE}

Next == Engine(Admins, Customers, ShopQuantities, ShopButtons, ShopRuns, DiskWorks, generate_order_id)

Spec == Init /\ [][Next]_vars

\* The API client: one user, admin and customer at once, and an API that
\* accepts, reports an error, times out, drops the connection or answers garbage.
ApiRuns == ResponseRuns({r \in Responses : r.kind # "no_error_field"})

NextApi == Engine(Admins, Admins, ShopQuantities, ShopButtons, ApiRuns, DiskWorks, generate_order_id)

SpecApi == Init /\ [][NextApi]_vars

\* The disk: one user, admin and customer at once, an API that accepts, and
\* file writes that can fail (save_data returns False).
DiskRuns == ResponseRuns({r \in Responses : r.kind = "order"})

NextDisk == Engine(Admins, Admins, ShopQuantities, ShopButtons, DiskRuns, BOOLEAN, generate_order_id)

SpecDisk == Init /\ [][NextDisk]_vars

\* The HTTP status: one user, admin and customer at once, and an API that
\* accepts with status 200 or answers with status 500, with an order or an
\* error in the body.
HttpRuns == ResponseRuns({r \in Responses : r.kind = "order"} \cup NonOkResponses)

NextHttp == Engine(Admins, Admins, ShopQuantities, ShopButtons, HttpRuns, DiskWorks, generate_order_id)

SpecHttp == Init /\ [][NextHttp]_vars

\* The order ids: one user, admin and customer at once, and a generator whose
\* draw can repeat an id that is already stored (random characters and the
\* clock modulo 10000; generate_order_id does not look at orders_data).
RepeatedDraws == OrderIds

NextIds == Engine(Admins, Admins, ShopQuantities, ShopButtons, DiskRuns, DiskWorks,
                  RepeatedDraws)

SpecIds == Init /\ [][NextIds]_vars

\* The running dispatch: one user, admin and customer at once, and an API that
\* accepts, reports an error or times out. Every request returns or times out,
\* so a dispatch that is inside its retry loop takes its next turn.
LiveRuns == ResponseRuns({r \in Responses : r.kind \in {"order", "error", "timeout"}})

NextLive == Engine(Admins, Admins, ShopQuantities, ShopButtons, LiveRuns, DiskWorks, generate_order_id)

SpecLive ==
    /\ Init
    /\ [][NextLive]_vars
    /\ WF_vars(\E rs \in LiveRuns : process_order_to_api_attempt(rs))
    /\ \A k \in 1..MaxOrders :
          WF_vars(\E rs \in LiveRuns : process_delayed_order_attempt(k, rs))

\* The quantity entry: one user, admin and customer at once, who enters every
\* text of QuantityTexts (two accepted quantities, one below and one above the
\* range, one that is no number) and presses every kind of button; the API
\* accepts and the disk works.
NextQuote == Engine(Admins, Admins, QuantityTexts, CallbackData, DiskRuns, DiskWorks, generate_order_id)

SpecQuote == Init /\ [][NextQuote]_vars

\* The admin panel: every user starts the bot and presses the admin buttons,
\* also those of the "user not found" message; nobody orders. The coins
\* granted to one user stay below MaxGranted.
NextAdmin ==
    \/ \E u \in Users : start_command(u)
    \/ \E u \in Users : admin_callback_handler(u)
    \/ \E u \in Users, text \in UserIdTexts \cup {CancelText} :
            admin_get_user_id_for_coins(u, text)
    \/ \E u \in Users, text \in CoinTexts \cup {CancelText} :
            /\ \A t \in Users : granted[t] < MaxGranted
            /\ admin_add_coins_to_user(u, text)
    \/ \E u \in Users, data \in UserManagementData, save_result \in DiskWorks :
            admin_user_management_callback(u, data, save_result)

SpecAdmin == Init /\ [][NextAdmin]_vars

\* ------------------------------------------------------- database.py
\* the balances update_user is called with
StoredCoins == {0, 100, 200}

\* which backend served a call: the remote store when the request raised no
\* exception, the local file when it did (or when USE_SUPABASE is False)
ServedBy(remote_up) == IF remote_up THEN "supabase" ELSE "file"

\* supabase.table(USERS_TABLE).update(supabase_data).eq("id", user_id): the
\* row of the user is rewritten; without a row nothing matches
RemoteUpdate(table, u, coins) ==
    IF table[u] # NoInt THEN [table EXCEPT ![u] = coins] ELSE table

\* update_user_in_file runs in the except branch and in the else branch of
\* update_user only: a call the remote store served leaves the file alone
update_user_in_file(file, u, coins, remote_up) ==
    IF remote_up THEN file ELSE [file EXCEPT ![u] = coins]

\* database.update_user(user_id, data), data["coins"] = coins
db_update_user(u, coins, remote_up) ==
    /\ db' = [db EXCEPT
                !.supabase = IF remote_up THEN RemoteUpdate(@, u, coins) ELSE @,
                !.users_file = update_user_in_file(@, u, coins, remote_up),
                !.last_update[u] = [coins |-> coins, by |-> ServedBy(remote_up),
                                    matched |-> remote_up /\ db.supabase[u] # NoInt]]
    /\ UNCHANGED <<users_data, ADMIN_IDS, next_step, orders_data, order_timers, thr, hpc,
                   hctx, api_requests, refunded, journal, quote_closed, calc, posted,
                   granted>>

\* get_user_local: an unknown user is entered with coins 0, then the entry is
\* returned
get_user_local(file, u) == IF file[u] = NoInt THEN [file EXCEPT ![u] = 0] ELSE file

\* database.get_user(user_id): the row of the remote store, inserted with
\* coins 0 when there is none, or the entry of the users file when the request
\* raised
db_get_user(u, remote_up) ==
    LET table == IF remote_up /\ db.supabase[u] = NoInt
                 THEN [db.supabase EXCEPT ![u] = 0]
                 ELSE db.supabase
        file == IF remote_up THEN db.users_file ELSE get_user_local(db.users_file, u)
        result == IF remote_up THEN table[u] ELSE file[u]
    IN  /\ db' = [db EXCEPT
                    !.supabase = table,
                    !.users_file = file,
                    !.last_read = [user |-> u, coins |-> result,
                                   by |-> ServedBy(remote_up),
                                   after |-> db.last_update[u]]]
        /\ UNCHANGED <<users_data, ADMIN_IDS, next_step, orders_data, order_timers, thr,
                       hpc, hctx, api_requests, refunded, journal, quote_closed, calc,
                       posted, granted>>

\* The ledger store: calls of update_user and get_user, each served by the
\* remote store or, when the remote store is unavailable, by the local file.
NextStore ==
    \/ \E u \in Users, coins \in StoredCoins, remote_up \in BOOLEAN :
            db_update_user(u, coins, remote_up)
    \/ \E u \in Users, remote_up \in BOOLEAN : db_get_user(u, remote_up)

SpecStore == Init /\ [][NextStore]_vars


\* ------------------------------------------------------------ claims
TerminalStatuses == {"completed", "failed", "cancelled"}
Stored == 1..Len(orders_data)
ConfirmButtons == CallbackData \ {<<"cancel", "view", "order">>}

\* C1: every user's coin balance is >= 0 in every reachable state, whatever
\* orders, cancellations, grants and dispatches came before.
C1_CoinsNeverNegative == \A u \in Users : users_data[u].coins >= 0

\* a user who ordered and spent the balance down to exactly zero
C1_Witness ==
    \E u \in Users :
        /\ "coins" \in users_data[u].keys
        /\ users_data[u].coins = 0
        /\ \E i \in Stored : orders_data[i].user_id = u

\* C2: a cancel racing the timer-driven dispatch of the same order never has
\* the price refunded while the order is also sent to the API or processing.
C2_CancelExcludesDispatch ==
    \A k \in Stored :
        refunded[k] > 0 => /\ api_requests[k] = {}
                           /\ orders_data[k].status # "processing"

\* C3: once an order's status is completed, failed or cancelled, no step
\* changes it.
C3_TerminalStatusFinal ==
    [][\A k \in Stored :
          orders_data[k].status \in TerminalStatuses
              => orders_data'[k].status = orders_data[k].status]_vars

InsufficientFunds(u) ==
    /\ HasQuote(u)
    /\ "coins" \in users_data[u].keys
    /\ users_data[u].coins < users_data[u].temp_price

\* C4: a confirm by a user whose coins are below the quoted price changes no
\* balance, appends no order, arms no timer and starts no dispatch.
C4_InsufficientFundsNoEffect ==
    [][\A u \in Users, data \in ConfirmButtons, notify_ok \in BOOLEAN :
          \A order_id \in generate_order_id :
              (InsufficientFunds(u)
               /\ handle_speed_selection(u, data, order_id, notify_ok, TRUE, TRUE))
                  => /\ \A v \in Users : users_data'[v].coins = users_data[v].coins
                     /\ orders_data' = orders_data
                     /\ order_timers' = order_timers
                     /\ thr' = thr
                     /\ api_requests' = api_requests]_vars

\* a user with a quote and too few coins, while there is room for an order
C4_Witness ==
    \E u \in Users :
        /\ InsufficientFunds(u)
        /\ hpc = "idle"
        /\ Len(orders_data) < MaxOrders

SufficientFunds(u, data) ==
    /\ HasQuote(u)
    /\ "coins" \in users_data[u].keys
    /\ users_data[u].coins >= users_data[u].temp_price
    /\ DeliveryPlan(data, users_data[u].temp_quantity).valid

\* C5: a confirm by a user with coins >= price takes exactly price from that
\* user, appends exactly one order, pending, and leaves every other user's
\* balance and every stored order as they were.
C5_SufficientFundsDebitsAndAppends ==
    [][\A u \in Users, data \in ConfirmButtons, notify_ok \in BOOLEAN :
          \A order_id \in generate_order_id :
              (SufficientFunds(u, data)
               /\ handle_speed_selection(u, data, order_id, notify_ok, TRUE, TRUE))
                  => /\ users_data'[u].coins = users_data[u].coins - users_data[u].temp_price
                     /\ Len(orders_data') = Len(orders_data) + 1
                     /\ orders_data'[Len(orders_data')].status = "pending"
                     /\ orders_data'[Len(orders_data')].user_id = u
                     /\ orders_data'[Len(orders_data')].price = users_data[u].temp_price
                     /\ \A v \in Users \ {u} : users_data'[v].coins = users_data[v].coins
                     /\ \A i \in Stored : orders_data'[i] = orders_data[i]]_vars

\* the newest order is pending and its owner holds what the debit left
C5_Witness ==
    /\ orders_data # <<>>
    /\ LET order == orders_data[Len(orders_data)]
       IN  /\ order.status = "pending"
           /\ order.price = 100
           /\ users_data[order.user_id].coins = 100

\* C6: the step that cancels an order sets its status to cancelled and adds
\* exactly its price to the owner's coins, and no order is ever refunded twice.
C6_CancelRefundsOnce ==
    [][/\ cancel_order_callback_commit
          => /\ orders_data'[hctx.idx].status = "cancelled"
             /\ users_data'[orders_data[hctx.idx].user_id].coins
                  = users_data[orders_data[hctx.idx].user_id].coins
                    + orders_data[hctx.idx].price
       /\ \A u \in Users, id \in OrderIds :
             (cancel_order(u, id) /\ orders_data' # orders_data)
                 => \E k \in Stored :
                       /\ orders_data'[k].status = "cancelled"
                       /\ users_data'[orders_data[k].user_id].coins
                            = users_data[orders_data[k].user_id].coins
                              + orders_data[k].price
       /\ \A k \in Stored : refunded'[k] <= 1]_vars

\* a cancelled order whose price went back to its owner
C6_Witness ==
    \E k \in Stored :
        /\ orders_data[k].status = "cancelled"
        /\ refunded[k] = 1
        /\ hpc = "idle"
        /\ users_data[orders_data[k].user_id].coins = 200

NotCancellable == {"processing", "completed", "failed", "cancelled"}

\* C7: a cancel request for an order that is processing, completed, failed or
\* cancelled ends in the check: the handler goes no further, and orders,
\* balances and timers stay as they were.
C7_CancelRejectedWhenNotPending ==
    [][\A u \in Users, order_id \in OrderIds :
          LET idx == FindOrder(orders_data, order_id)
          IN  (/\ idx # 0
               /\ orders_data[idx].status \in NotCancellable
               /\ (cancel_order_callback(u, order_id) \/ cancel_order(u, order_id)))
                  => /\ hpc' = "idle"
                     /\ orders_data' = orders_data
                     /\ users_data' = users_data
                     /\ order_timers' = order_timers
                     /\ thr' = thr]_vars

\* an order being processed while its owner is free to ask for its cancellation
C7_Witness ==
    \E k \in Stored :
        /\ orders_data[k].status = "processing"
        /\ hpc = "idle"
        /\ next_step[orders_data[k].user_id] = "none"

DispatchOfSettled(t) ==
    LET idx == FindOrder(orders_data, thr[t].order_id)
    IN  /\ thr[t].pc = "find"
        /\ idx # 0
        /\ orders_data[idx].status # "pending"

\* C8: a dispatch that finds its order not pending returns at once: the
\* order records are unchanged and no request goes out.
C8_DispatchOfSettledIsNoOp ==
    [][/\ (DispatchOfSettled(0) /\ process_order_to_api_find)
          => /\ thr'[0].pc = "done"
             /\ orders_data' = orders_data
             /\ api_requests' = api_requests
       /\ \A k \in 1..MaxOrders :
             (DispatchOfSettled(k) /\ process_delayed_order_find(k))
                 => /\ thr'[k].pc = "done"
                    /\ orders_data' = orders_data
                    /\ api_requests' = api_requests]_vars

\* a timer that fired for an order cancelled in the meantime and sent nothing
C8_Witness ==
    \E k \in Stored :
        /\ thr[k].pc = "done"
        /\ orders_data[k].status = "cancelled"
        /\ refunded[k] = 1
        /\ api_requests[k] = {}

\* C9: a dispatch whose every request met a timeout or a connection error made
\* exactly API_RETRIES requests, slept API_RETRY_DELAY between them, and left
\* the order failed.
C9_TransportFailureThreeRequests ==
    \A t \in 0..MaxOrders :
        (/\ thr[t].pc = "done"
         /\ thr[t].requests > 0
         /\ thr[t].all_transport
         /\ refunded[thr[t].idx] = 0)
            => /\ thr[t].requests = API_RETRIES
               /\ thr[t].slept = API_RETRY_DELAY * (API_RETRIES - 1)
               /\ orders_data[thr[t].idx].status = "failed"

\* C10: the error stored on an order whose dispatch ran out of attempts is the
\* error the last request showed, word for word.
C10_LastErrorVerbatim ==
    \A t \in 0..MaxOrders :
        (/\ thr[t].pc = "done"
         /\ thr[t].requests > 0
         /\ refunded[thr[t].idx] = 0)
            => orders_data[thr[t].idx].error = thr[t].last_error

AcceptedRuns == {rs \in ApiRuns \cup ShopRuns : send_view_order_to_api(rs).success}

Accepted(order, result) ==
    /\ order.api_order_id = result
    /\ order.status = "processing"
    /\ order.error = None

\* C11: the dispatch step in which the API accepts the submission leaves the
\* order with the returned identifier as api_order_id, status processing and
\* no error.
C11_AcceptedRecordsExternalId ==
    [][\A t \in 0..MaxOrders :
          (thr[t].pc = "request" /\ thr'[t] = DoneThread)
              => \E rs \in AcceptedRuns :
                    /\ IF t = 0 THEN process_order_to_api_attempt(rs)
                                ELSE process_delayed_order_attempt(t, rs)
                    /\ Accepted(orders_data'[thr[t].idx],
                                send_view_order_to_api(rs).result)]_vars

\* an immediate order accepted by the API, its dispatch over
C11_Witness ==
    \E k \in Stored :
        /\ orders_data[k].start_delay = 0
        /\ orders_data[k].api_order_id \in ExternalIds
        /\ orders_data[k].status = "processing"
        /\ orders_data[k].error = None
        /\ hpc = "idle"

\* C12: an order with start_delay 0 is dispatched in the handler run that
\* created it: once the confirm handler has returned, a stored order with
\* start_delay 0 is not pending, whether or not the confirmation went out.
C12_ImmediateOrderDispatchedInHandler ==
    \A k \in Stored :
        (orders_data[k].start_delay = 0 /\ hpc = "idle")
            => orders_data[k].status # "pending"

\* C13: a cancellation that finds the timer of its order still waiting disarms
\* it; a disarmed timer never runs, sends nothing for the order, and the
\* order stays cancelled.
C13_CancelBeforeFireDisarms ==
    [][/\ \A k \in 1..MaxOrders :
             (/\ cancel_order_callback_commit
              /\ order_timers[hctx.order_id] = k
              /\ thr[k].pc = "armed")
                 => /\ thr'[k].pc = "cancelled"
                    /\ orders_data'[k].status = "cancelled"
                    /\ api_requests'[k] = {}
       /\ \A k \in Stored :
             thr[k].pc = "cancelled"
                 => /\ thr'[k] = thr[k]
                    /\ orders_data'[k].status = "cancelled"
                    /\ api_requests'[k] = {}]_vars

\* a deferred order cancelled while its timer was waiting, the refund booked
C13_Witness ==
    \E k \in Stored :
        /\ thr[k].pc = "cancelled"
        /\ orders_data[k].start_delay > 0
        /\ orders_data[k].status = "cancelled"
        /\ refunded[k] = 1
        /\ api_requests[k] = {}


\* the positions of the journal of order k at which the engine goes on to the
\* order's next step: the timer is armed or the first request is sent
Proceeds(k) == {i \in 1..Len(journal[k]) : journal[k][i].op \in {"arm", "request"}}

\* the write of the given file is entered in the journal of order k before position i
WrittenBefore(k, i, file) == \E j \in 1..(i - 1) : journal[k][j].op = file

\* C14: when save_data returns False for the debited balance or for the new
\* order, the creation does not go on: no timer is armed and no request is sent
\* to the API for that order.
C14_FailedSaveStopsCreation ==
    \A k \in Stored :
        (\E j \in 1..Len(journal[k]) : ~journal[k][j].ok) => Proceeds(k) = {}

\* C15: in every order creation the write of the debited balance and the write
\* of the new order both come before the timer is armed and before the first
\* request to the API.
C15_WritesBeforeArmAndRequest ==
    \A k \in Stored :
        \A i \in Proceeds(k) :
            /\ WrittenBefore(k, i, "save_users")
            /\ WrittenBefore(k, i, "save_orders")

C15_Witness ==
    \E k, m \in Stored :
        /\ journal[k][Len(journal[k])].op = "arm"
        /\ journal[m][Len(journal[m])].op = "request"
        /\ orders_data[m].start_delay = 0
        /\ Len(journal[k]) = 3
        /\ Len(journal[m]) = 3


\* the step stores a new order of user u
CreatesOrderOf(u) ==
    /\ Len(orders_data') > Len(orders_data)
    /\ orders_data'[Len(orders_data')].user_id = u

\* C16: once an order was created from a quote, or the purchase was cancelled
\* with cancel_view_order, the quote is gone: until the user enters a new
\* quantity no step creates an order for them or takes coins from them.
C16_ClosedQuoteCreatesNothing ==
    [][\A u \in Users :
          quote_closed[u] =>
              /\ ~CreatesOrderOf(u)
              /\ users_data'[u].coins >= users_data[u].coins]_vars


\* an evaluation whose price has been computed
Priced == calc.pc \in {"priced", "planned"}

\* an evaluation whose delivery plan has been computed for the given button
Planned(data) == calc.pc = "planned" /\ calc.data = data

\* C17: for a quantity from 100 to 100000 the price is max(10, quantity)
\* coins.
C17_PriceIsMaxOfTenAndQuantity ==
    (Priced /\ calc.quantity >= 100 /\ calc.quantity <= 100000)
        => calc.price = (IF calc.quantity < 10 THEN 10 ELSE calc.quantity)

C17_Witness == Priced /\ calc.quantity = 100000 /\ calc.price = 100000

\* x limited to the interval lo..hi
Clamp(x, lo, hi) == IF x < lo THEN lo ELSE IF x > hi THEN hi ELSE x

\* C19: the slow plan has batch_size = clamp(quantity // 10, 100, 1000),
\* runs = max(1, quantity // batch_size), interval 30 and start delay 0; for
\* 10000 views that is batch_size 1000 and 10 runs.
C19_SlowPlan ==
    Planned(<<"speed", "slow">>) =>
        LET b == Clamp(calc.quantity \div 10, 100, 1000)
        IN  /\ calc.plan.valid
            /\ calc.plan.batch_size = b
            /\ calc.plan.api_runs = (IF calc.quantity \div b < 1 THEN 1
                                                                ELSE calc.quantity \div b)
            /\ calc.plan.api_interval = 30
            /\ calc.plan.start_delay = 0
            /\ calc.quantity = 10000 =>
                   calc.plan.batch_size = 1000 /\ calc.plan.api_runs = 10

C19_Witness ==
    /\ Planned(<<"speed", "slow">>)
    /\ calc.quantity = 10000
    /\ calc.plan.api_runs = 10

\* the drip buttons as their labels describe them: "Starting after <delay>
\* min, Every <interval> mins <batch> views"
DripOptions ==
    { [data |-> <<"drip", "1", "3", "100">>, delay |-> 1, interval |-> 3, batch |-> 100],
      [data |-> <<"drip", "1", "3", "150">>, delay |-> 1, interval |-> 3, batch |-> 150],
      [data |-> <<"drip", "1", "5", "100">>, delay |-> 1, interval |-> 5, batch |-> 100],
      [data |-> <<"drip", "1", "1", "100">>, delay |-> 1, interval |-> 1, batch |-> 100] }

\* C20: a plan drip_<delay>_<interval>_<batch> has runs = max(1, quantity //
\* batch) and takes the interval and the start delay from the button;
\* drip_1_3_100 for 350 views has 3 runs.
C20_DripPlan ==
    \A o \in DripOptions :
        Planned(o.data) =>
            /\ calc.plan.valid
            /\ calc.plan.api_runs = (IF calc.quantity \div o.batch < 1
                                     THEN 1 ELSE calc.quantity \div o.batch)
            /\ calc.plan.api_interval = o.interval
            /\ calc.plan.start_delay = o.delay
            /\ (calc.quantity = 350 /\ o.batch = 100 /\ o.interval = 3) =>
                   calc.plan.api_runs = 3

C20_Witness ==
    /\ Planned(<<"drip", "1", "3", "100">>)
    /\ calc.quantity = 350
    /\ calc.plan.api_runs = 3
    /\ calc.plan.api_interval = 3
    /\ calc.plan.start_delay = 1


\* quantity is within the accepted range and price is what it costs
RangeAndPrice(quantity, price) ==
    /\ quantity >= 100
    /\ quantity <= 100000
    /\ price = (IF quantity < 10 THEN 10 ELSE quantity)

\* C18: a quantity below 100 or above 100000 is rejected at entry and no quote
\* is stored for it, so every stored quote and every order has a quantity from
\* 100 to 100000 and the price max(10, quantity).
C18_QuantityInRangeWithItsPrice ==
    /\ \A u \in Users :
          "temp_quantity" \in users_data[u].keys =>
              RangeAndPrice(users_data[u].temp_quantity, users_data[u].temp_price)
    /\ \A k \in Stored : RangeAndPrice(orders_data[k].quantity, orders_data[k].price)

C18_Witness ==
    \E k \in Stored, u \in Users :
        /\ orders_data[k].quantity = 200
        /\ orders_data[k].price = 200
        /\ next_step[u] = "process_view_quantity"
        /\ "temp_quantity" \notin users_data[u].keys


\* the plan of the order delivers in batches: slow or drip
Batched(order) == order.delivery = <<"slow">> \/ order.delivery[1] = "drip"

\* C21: a request posted for an order carries the order's link and quantity,
\* and carries runs and interval exactly when the order's plan is batched; an
\* order with the immediate plan has runs null, interval null and start delay
\* 0, and its requests carry neither field.
C21_RequestCarriesThePlan ==
    \A k \in Stored :
        /\ \A p \in posted[k] :
              /\ {"link", "quantity"} \subseteq p.fields
              /\ p.link = orders_data[k].post_link
              /\ p.quantity = orders_data[k].quantity
              /\ ("runs" \in p.fields) = Batched(orders_data[k])
              /\ ("interval" \in p.fields) = Batched(orders_data[k])
              /\ Batched(orders_data[k]) =>
                     /\ p.runs = orders_data[k].api_runs
                     /\ p.interval = orders_data[k].api_interval
        /\ orders_data[k].delivery = <<"maximum">> =>
              /\ orders_data[k].api_runs = NoInt
              /\ orders_data[k].api_interval = NoInt
              /\ orders_data[k].start_delay = 0

C21_Witness ==
    \E k, m \in Stored :
        /\ orders_data[k].delivery = <<"maximum">>
        /\ posted[k] # {}
        /\ orders_data[m].delivery = <<"slow">>
        /\ orders_data[m].quantity = 200
        /\ \E p \in posted[m] : p.runs = 2 /\ p.interval = 30


\* thread t makes one call of send_view_order_to_api that meets the responses rs
Call(t, rs) ==
    IF t = 0 THEN process_order_to_api_attempt(rs) ELSE process_delayed_order_attempt(t, rs)

\* the call of thread t is taken as a success: the dispatch returns at once
TakenAsSuccess(t) == thr'[t] = DoneThread

\* the last response of a call, the one that decides what it returns
Last(rs) == rs[Len(rs)]

\* C22: a call counts as a success exactly when the decoded payload of its
\* last response contains the order field, and a response with an HTTP status
\* other than 200 never counts as a success.
C22_SuccessIffOrderFieldAndStatus200 ==
    [][\A t \in 0..MaxOrders :
          (thr[t].pc = "request" /\ thr'[t] # thr[t]) =>
              \A rs \in HttpRuns :
                  Call(t, rs) =>
                      /\ TakenAsSuccess(t) = (Last(rs).kind = "order")
                      /\ HttpStatus(Last(rs)) # 200 => ~TakenAsSuccess(t)]_vars


\* C23: every order whose status is failed has an error string, not null.
C23_FailedHasError ==
    \A k \in Stored : orders_data[k].status = "failed" => orders_data[k].error # None

C23_Witness ==
    \E k, m \in Stored :
        /\ orders_data[k].status = "failed"
        /\ orders_data[k].error \in ApiErrors
        /\ orders_data[k].start_delay = 0
        /\ orders_data[m].status = "failed"
        /\ orders_data[m].error = "Connection error after multiple attempts"
        /\ orders_data[m].start_delay > 0


\* the step brings the account record of user u into existence
ComesIntoExistence(u) == ~users_data[u].exists /\ users_data'[u].exists

\* C24: whichever operation references an unknown user first, the account
\* record that comes into existence has coins = 0; an account once created
\* is never deleted.
C24_NewAccountHasZeroCoins ==
    [][\A u \in Users :
          /\ ComesIntoExistence(u) =>
                 /\ "coins" \in users_data'[u].keys
                 /\ users_data'[u].coins = 0
          /\ users_data[u].exists => users_data'[u].exists]_vars


\* C25: no two stored orders have the same id.
C25_OrderIdsUnique ==
    \A i, j \in Stored : i # j => orders_data[i].id # orders_data[j].id


\* the balance of user u; an account without the field counts as 0, as
\* user.get("coins", 0) reads it
Balance(u) == IF "coins" \in users_data[u].keys THEN users_data[u].coins ELSE 0

\* the sum, over the first n stored orders that belong to user u, of the
\* order's price times times[k]
RECURSIVE PriceSum(_, _, _)
PriceSum(u, times, n) ==
    IF n = 0
    THEN 0
    ELSE PriceSum(u, times, n - 1)
             + (IF orders_data[n].user_id = u THEN orders_data[n].price * times[n] ELSE 0)

\* what user u paid for the stored orders: every order is debited at creation
Debits(u) == PriceSum(u, [k \in 1..MaxOrders |-> 1], Len(orders_data))

\* what user u got back through cancellations
Refunds(u) == PriceSum(u, refunded, Len(orders_data))

\* C26: no balance update is lost: a user's coins are the initial balance 0
\* plus all grants and all refunds minus all debits.
C26_NoLostBalanceUpdate ==
    \A u \in Users : Balance(u) = granted[u] + Refunds(u) - Debits(u)

C26_Witness ==
    \E u \in Users :
        /\ granted[u] = 200
        /\ Debits(u) = 200
        /\ Refunds(u) = 100
        /\ Balance(u) = 100


\* the step is a call for stored order k that the API accepted
AcceptedCallFor(k) ==
    \E t \in 0..MaxOrders :
        /\ thr[t].pc = "request"
        /\ thr[t].idx = k
        /\ TakenAsSuccess(t)

Dispatching(k) == \E t \in 0..MaxOrders : thr[t].pc = "request" /\ thr[t].idx = k

\* the dispatch of order k has come to its final result
Resolved(k) ==
    /\ k \in Stored
    /\ orders_data[k].api_order_id # NoInt \/ orders_data[k].status = "failed"

\* C28: a dispatch that has moved an order to processing terminates: the
\* order eventually has its api_order_id set or the status failed, and no
\* dispatch makes more than max_retries calls of API_RETRIES requests each.
C28_DispatchTerminates ==
    /\ \A k \in 1..MaxOrders : Dispatching(k) ~> Resolved(k)
    /\ [](\A t \in 0..MaxOrders :
             /\ thr[t].attempt < max_retries
             /\ thr[t].requests <= max_retries * API_RETRIES)

C28_Witness ==
    \E k, m \in Stored :
        /\ orders_data[k].status = "failed"
        /\ orders_data[k].api_order_id = NoInt
        /\ \E t \in 0..MaxOrders : thr[t].pc = "done" /\ thr[t].requests = 9
        /\ orders_data[m].api_order_id \in ExternalIds

\* the executions of dispatch (0 the handler thread, k the timer thread of the
\* k-th order) that passed the pending check for order k and sent requests
Submitters(k) == api_requests[k]

\* C29: concurrent or duplicate dispatch triggers never double-submit: for
\* each order at most one execution of dispatch passes the pending check and
\* sends requests to the API, and the order's price is debited at most once
\* (a step that lowers a balance is the creation of one order and takes that
\* order's price).
C29_NoDoubleSubmit ==
    /\ [](\A k \in 1..MaxOrders : Cardinality(Submitters(k)) <= 1)
    /\ [][\A u \in Users :
             Balance(u)' < Balance(u) =>
                 /\ Len(orders_data') = Len(orders_data) + 1
                 /\ orders_data'[Len(orders_data')].user_id = u
                 /\ Balance(u) - Balance(u)' = orders_data'[Len(orders_data')].price]_vars

\* an order the API accepted: the success branch stored its identifier
Submitted(order) == order.api_order_id # NoInt /\ order.status = "processing"

\* C30: no order ever reaches the status completed: an order that was
\* successfully submitted stays in processing on every step, and every request
\* sent to the API places an order (link and quantity), none asks for the
\* status of one.
C30_SubmittedStaysProcessing ==
    /\ [](\A k \in Stored : orders_data[k].status # "completed")
    /\ [](\A k \in 1..MaxOrders : \A r \in posted[k] : {"link", "quantity"} \subseteq r.fields)
    /\ [][\A k \in Stored :
             Submitted(orders_data[k]) => orders_data'[k].status = "processing"]_vars

\* C31: read-your-writes across the fallback: when the last update_user of a
\* user was served by the remote store (it rewrote the user's row) and a later
\* get_user of that user is served by the local file, the read returns the
\* coins that update wrote.
C31_ReadYourWritesAcrossFallback ==
    /\ db.last_read.by = "file"
    /\ db.last_read.after.by = "supabase"
    /\ db.last_read.after.matched
    => db.last_read.coins = db.last_read.after.coins

\* C32: the /cancel_<order id> command resolves the order it names: for every
\* stored order that is pending, with its owner free to send the command, the
\* id cancel_order extracts from the command is the order's full id and its
\* lookup finds that order (which it then cancels and refunds).
C32_CancelCommandResolvesNamedOrder ==
    \A k \in Stored : \A u \in Users :
        /\ OwnsOrder(u, orders_data[k])
        /\ Cancellable(orders_data[k].status)
        /\ HandlerFree(u)
        => LET order_id == CommandOrderId(CancelCommand(orders_data[k].id))
           IN  /\ order_id = orders_data[k].id
               /\ FindOrder(orders_data, order_id) = k

\* a step cancels order k: its status becomes cancelled or its price is refunded
Cancels(k) ==
    \/ orders_data[k].status # "cancelled" /\ orders_data'[k].status = "cancelled"
    \/ refunded'[k] # refunded[k]

\* C33: a cancel request of a user who does not own the order is rejected and
\* changes nothing: only the owner's request gets past the checks of the
\* cancel handler, a step that disarms a timer belongs to the owner's request,
\* and a step that cancels an order refunds its price once, to the order's own
\* user_id, and leaves every other account as it was.
C33_OnlyOwnerCancelsAndIsRefunded ==
    [][/\ hpc = "idle" /\ hpc' = "cancel_order_callback"
            => OwnsOrder(hctx'.user, orders_data[hctx'.idx])
       /\ \A id \in OrderIds :
             order_timers[id] # 0 /\ order_timers'[id] = 0
                 => \E k \in Stored : /\ orders_data[k].id = id
                                      /\ hpc = "cancel_order_callback"
                                      /\ OwnsOrder(hctx.user, orders_data[k])
       /\ \A k \in Stored :
             Cancels(k)
                 => LET owner == orders_data[k].user_id
                    IN  /\ hpc = "cancel_order_callback"
                        /\ hctx.user = owner
                        /\ refunded'[k] = refunded[k] + 1
                        /\ Balance(owner)' = Balance(owner) + orders_data[k].price
                        /\ \A v \in Users \ {owner} : users_data'[v] = users_data[v]]_vars

C33_Witness ==
    \E k \in Stored : \E v \in Users :
        /\ orders_data[k].status = "cancelled"
        /\ refunded[k] = 1
        /\ v # orders_data[k].user_id
        /\ users_data[v].exists
        /\ Balance(v) = granted[v]
        /\ Balance(orders_data[k].user_id) = granted[orders_data[k].user_id]
        /\ granted[orders_data[k].user_id] > 0

\* a step moves order k to failed
Fails(k) == orders_data[k].status # "failed" /\ orders_data'[k].status = "failed"

\* C34: the step that moves an order to failed leaves every account as it
\* was: the price debited at creation is not refunded.
C34_FailureKeepsBalances ==
    [][\A k \in Stored :
          Fails(k) => /\ users_data' = users_data
                      /\ refunded'[k] = refunded[k]]_vars

C34_Witness ==
    \E k \in Stored :
        /\ orders_data[k].status = "failed"
        /\ refunded[k] = 0
        /\ granted[orders_data[k].user_id] = 200
        /\ Balance(orders_data[k].user_id) = 200 - orders_data[k].price
        /\ Len(orders_data) = 1

\* what the orders of user u that are not cancelled cost
Outstanding(u) ==
    PriceSum(u, [k \in 1..MaxOrders |->
                    IF k \in Stored /\ orders_data[k].status = "cancelled" THEN 0 ELSE 1],
             Len(orders_data))

\* C35: the ledger and the orders agree: in every state every user's coins
\* are the sum of the admin grants to that user minus the prices of that
\* user's orders whose status is not cancelled.
C35_LedgerMatchesOrders ==
    \A u \in Users : Balance(u) = granted[u] - Outstanding(u)

\* the next-step handlers of the grant flow
GrantSteps == {"admin_get_user_id_for_coins", "admin_add_coins_to_user"}

\* a step in which admin_add_coins_to_user ends the flow of user u
GrantHandled(u) ==
    next_step[u] = "admin_add_coins_to_user" /\ next_step'[u] = "none"

\* C36: coins are credited by a grant only in a flow that a user of the admin
\* list started, and only by a strictly positive amount: a user enters the
\* grant flow only while in ADMIN_IDS, every step that raises a balance ends
\* the flow of an admin who named that user, and no step of the amount
\* handler lowers a balance.
C36_GrantOnlyByAdminAndPositive ==
    [][/\ \A u \in Users :
             next_step[u] \notin GrantSteps /\ next_step'[u] \in GrantSteps
                 => u \in ADMIN_IDS
       /\ \A t \in Users :
             Balance(t)' > Balance(t)
                 => \E u \in ADMIN_IDS : /\ GrantHandled(u)
                                         /\ users_data[u].admin_temp_user_id = t
       /\ (\E u \in Users : GrantHandled(u))
             => \A t \in Users : Balance(t)' >= Balance(t)]_vars

C36_Witness ==
    \E t \in Users : \E v \in Users \ ADMIN_IDS :
        /\ granted[t] = 200
        /\ Balance(t) = 200
        /\ users_data[v].exists
        /\ next_step[v] = "none"

====
